---- MODULE Spec2Model ----
(***************************************************************************)
(* The STT connection engine of kyutai-rs (src/stt.go): the outbound       *)
(* worker (writer), the inbound worker (reader), the public SendMarker     *)
(* call, the errgroup scope shared by the workers and Done().              *)
(*                                                                         *)
(* Samples are abstracted to naturals: the k-th sample a caller submits on *)
(* a connection has the value k (k >= 1), silence is 0.  The code never    *)
(* inspects a sample value, so only position and zero-ness matter.         *)
(***************************************************************************)
EXTENDS Naturals, Sequences, FiniteSets, TLC

\* ---------------------------------------------------------------- bounds
\* Samples per STT frame (scaled down; the library constant is not part of
\* the modelled sources).
FrameSize == 2
\* Longest batch a caller submits in one channel send.
MaxBatchLen == 3
\* Number of batches a caller submits on one connection.
MaxBatches == 2
\* Number of messages the server delivers on one connection.
MaxInbound == 3
\* Number of times the one second ticker fires while the connection is usable.
MaxTicks == 1
\* Number of concurrent SendMarker calls.
MaxMarkerCalls == 2
\* Iterations of the end-of-input flush loop whose writes are recorded.
MaxFlush == 2

\* One second of samples: a whole number of frames.
SampleRate == 2 * FrameSize

VARIABLES
    \* caller side
    writeChanClosed,  \* the caller closed the write channel
    nbatches,         \* batches submitted so far
    nsamples,         \* samples submitted so far (their values are 1..nsamples)
    callerStopped,    \* the caller stopped receiving from the read channel
    \* writer goroutine
    wpc,              \* position of the writer
    input,            \* writer local: batch just received
    buffer,           \* writer local: frame buffer
    bufferNil,        \* writer local: buffer is the nil slice
    werr,             \* value the writer returned
    ticks,            \* ticker firings consumed
    nflush,           \* iterations of the flush loop (kept modulo 2 beyond MaxFlush)
    \* reader goroutine
    rpc,              \* position of the reader
    pending,          \* event the reader is sending on the read channel
    draining,         \* reader local: draining
    rerr,             \* value the reader returned
    rexit,            \* how the reader's loop ended
    nread,            \* messages delivered by the server
    received,         \* messages conn.Read returned, in order
    \* connection
    connState,        \* "open", "closed" (close frame received) or "broken"
    sock,             \* messages written to the socket, with the writing path
    published,        \* events the caller received from the read channel
    readerChanClosed, \* close(readerChan) happened
    flushClosed,      \* close(flushChan) happened
    panicked,         \* a goroutine panicked (close of a closed channel)
    markerIDsGen,     \* the atomic marker id counter
    smPc, smId,       \* SendMarker calls: position and id obtained
    issued,           \* ids in the order the counter issued them
    \* errgroup and Done()
    ctxErr,           \* workersCtx.Err(): "none" while the scope is live
    cancelAt,         \* whether both workers were blocked when the caller cancelled
    groupErr,         \* first non-nil error returned by a worker
    doneRet,          \* value returned by Done()
    closeCode,        \* status code Done() closed the socket with
    \* message codec
    codec,            \* a message value, its encoding and the value decoded from it
    \* client
    service           \* the client that built the connection: "stt" or "tts"

vars == <<writeChanClosed, nbatches, nsamples, callerStopped, wpc, input, buffer,
          bufferNil, werr, ticks, nflush, rpc, pending, draining, rerr, rexit,
          nread, received, connState, sock, published, readerChanClosed, flushClosed,
          panicked, markerIDsGen, smPc, smId, issued, ctxErr, cancelAt, groupErr,
          doneRet, closeCode, codec, service>>

callerVars == <<writeChanClosed, nbatches, nsamples, callerStopped>>
writerVars == <<wpc, input, buffer, bufferNil, werr, ticks, nflush>>
readerVars == <<rpc, pending, draining, rerr, rexit, nread, received>>
chanVars == <<published, readerChanClosed, flushClosed, panicked>>
markerVars == <<markerIDsGen, smPc, smId, issued>>
doneVars == <<doneRet, closeCode>>

\* ---------------------------------------------------------------- messages
Zeros(n) == [i \in 1..n |-> 0]

\* The samples lo+1 .. lo+n: the batch a caller submits after lo samples.
Batch(lo, n) == [i \in 1..n |-> lo + i]

oneSecondOfSilence == Zeros(SampleRate)

MessagePackAudio(pcm) == [type |-> "Audio", pcm |-> pcm, id |-> 0]

MessagePackMarker(id) == [type |-> "Marker", pcm |-> <<>>, id |-> id]

\* The reserved id of the end-of-input marker.
EndMarkerID == 0

Callers == 1..MaxMarkerCalls

\* ---------------------------------------------------------------- scope
cancelled == ctxErr # "none"

\* errgroup: the first non-nil error is kept and cancels the scope.
GroupErr(old, e) == IF old = "nil" /\ e # "nil" THEN e ELSE old

CtxAfter(old, e) == IF old = "none" /\ e # "nil" THEN "canceled" ELSE old

\* ---------------------------------------------------------------- send
\* A send that does not look at the scope.
SendErrsIgnoringScope == IF connState # "open" THEN {"transport"} ELSE {}

\* conn.Write(workersCtx, ...) fails once the scope is done or the
\* connection is no longer open, and then writes nothing.
SendErrs == (IF cancelled THEN {ctxErr} ELSE {}) \cup
            (IF connState # "open" THEN {"transport"} ELSE {})

SendOK == SendErrs = {}

Written(s, m, by) == Append(s, [msg |-> m, by |-> by])

\* ---------------------------------------------------------------- message codec
\* MarshalMsg and UnmarshalMsg are generated from the struct tags of msgpack.go
\* (go:generate msgp).  An encoding is the MessagePack map of a struct: one
\* <<key, value>> entry per tagged field, in declaration order.
MaxField == 1

\* The discriminators of msgpack.go, and one that is none of them.
MessagePackTypes == {"Ready", "Step", "Word", "EndWord", "Marker", "Eos", "Text",
                     "Audio", "Bogus"}

\* The variants and, for each, the keys of its fields in declaration order.
Variants == {"Header", "Text", "Audio", "Marker", "Step", "Word", "WordEnd"}

Fields(variant) ==
    CASE variant = "Header"  -> <<"type">>
      [] variant = "Text"    -> <<"type", "text">>
      [] variant = "Audio"   -> <<"type", "pcm">>
      [] variant = "Marker"  -> <<"type", "id">>
      [] variant = "Step"    -> <<"type", "prs", "step_idx", "buffered_pcm">>
      [] variant = "Word"    -> <<"type", "text", "start_time">>
      [] variant = "WordEnd" -> <<"type", "stop_time">>

Keys(variant) == {Fields(variant)[i] : i \in 1..Len(Fields(variant))}

\* The Go zero value of a field.
ZeroField(key) ==
    CASE key \in {"type", "text"} -> ""
      [] key \in {"pcm", "prs"}   -> <<>>
      [] OTHER                    -> 0

\* var z MessagePackX
ZeroValue(variant) ==
    [variant |-> variant, fields |-> [k \in Keys(variant) |-> ZeroField(k)]]

\* An encoder that leaves out the last field of the struct.
MarshalOmittingLast(m) ==
    [i \in 1..(Len(Fields(m.variant)) - 1) |->
        <<Fields(m.variant)[i], m.fields[Fields(m.variant)[i]]>>]

\* data, err := m.MarshalMsg(nil)
MarshalMsg(m) ==
    [i \in 1..Len(Fields(m.variant)) |->
        <<Fields(m.variant)[i], m.fields[Fields(m.variant)[i]]>>]

\* _, err = z.UnmarshalMsg(data): every entry whose key is a field of z
\* overwrites that field, any other entry is skipped, and a field without an
\* entry keeps the value z had.
RECURSIVE UnmarshalMsg(_, _)
UnmarshalMsg(z, data) ==
    IF data = <<>>
       THEN z
       ELSE LET e == Head(data)
                k == e[1]
            IN  UnmarshalMsg(IF k \in DOMAIN z.fields
                                THEN [z EXCEPT !.fields[k] = e[2]]
                                ELSE z,
                             Tail(data))

\* Values of each variant, over small field values.
Floats == {<<>>} \cup {<<a>> : a \in 0..MaxField}
             \cup {<<a, b>> : a \in 0..MaxField, b \in 0..MaxField}

Strings == {"", "a", "ab"}

Value(variant, fields) == [variant |-> variant, fields |-> fields]

Messages ==
    {Value("Header", [type |-> t]) : t \in MessagePackTypes}
    \cup {Value("Text", [type |-> "Text", text |-> x]) : x \in Strings}
    \cup {Value("Audio", [type |-> "Audio", pcm |-> p]) : p \in Floats}
    \cup {Value("Marker", [type |-> "Marker", id |-> i]) : i \in 0..(MaxField + 1)}
    \cup {Value("Step", [type |-> "Step", prs |-> p, step_idx |-> i,
                         buffered_pcm |-> b]) :
             p \in {<<>>, <<MaxField>>}, i \in 0..MaxField, b \in 0..MaxField}
    \cup {Value("Word", [type |-> "Word", text |-> x, start_time |-> a]) :
             x \in Strings, a \in 0..MaxField}
    \cup {Value("WordEnd", [type |-> "EndWord", stop_time |-> a]) : a \in 0..MaxField}

CodecIdle == [pc |-> "idle", msg |-> ZeroValue("Header"), data |-> <<>>,
              back |-> ZeroValue("Header")]

CodecMarshal ==
    /\ codec.pc = "plain"
    /\ codec' = [codec EXCEPT !.pc = "data", !.data = MarshalMsg(codec.msg)]
    /\ UNCHANGED <<callerVars, writerVars, readerVars, connState, sock, chanVars,
                   markerVars, ctxErr, cancelAt, groupErr, doneVars, service>>

CodecUnmarshal ==
    /\ codec.pc = "data"
    /\ codec' = [codec EXCEPT !.pc = "back",
                              !.back = UnmarshalMsg(ZeroValue(codec.msg.variant),
                                                    codec.data)]
    /\ UNCHANGED <<callerVars, writerVars, readerVars, connState, sock, chanVars,
                   markerVars, ctxErr, cancelAt, groupErr, doneVars, service>>

\* ---------------------------------------------------------------- Init
Connect ==
    /\ writeChanClosed = FALSE
    /\ nbatches = 0
    /\ nsamples = 0
    /\ callerStopped = FALSE
    /\ wpc = "select"
    /\ input = <<>>
    /\ buffer = <<>>
    /\ bufferNil = TRUE
    /\ werr = "none"
    /\ ticks = 0
    /\ nflush = 0
    /\ rpc = "read"
    /\ pending = [type |-> "none", val |-> 0]
    /\ draining = FALSE
    /\ rerr = "none"
    /\ rexit = "none"
    /\ nread = 0
    /\ received = <<>>
    /\ connState = "open"
    /\ sock = <<>>
    /\ published = <<>>
    /\ readerChanClosed = FALSE
    /\ flushClosed = FALSE
    /\ panicked = FALSE
    /\ markerIDsGen = 0
    /\ smPc = [c \in Callers |-> "idle"]
    /\ smId = [c \in Callers |-> 0]
    /\ issued = <<>>
    /\ ctxErr = "none"
    /\ cancelAt = "none"
    /\ groupErr = "nil"
    /\ doneRet = "none"
    /\ closeCode = "none"

\* STTClient.Connect
Init == Connect /\ codec = CodecIdle /\ service = "stt"

\* A message value to encode, with the connection left as Connect built it.
InitCodec ==
    /\ Connect
    /\ service = "stt"
    /\ \E m \in Messages : codec = [CodecIdle EXCEPT !.pc = "plain", !.msg = m]

\* ---------------------------------------------------------------- writer
\* A panic (close of a closed channel) ends the process: no goroutine takes a
\* step once panicked holds.
\* A worker returns e: errgroup keeps the first non-nil error and cancels.
WriterReturn(e) ==
    /\ wpc' = "done"
    /\ werr' = e
    /\ groupErr' = GroupErr(groupErr, e)
    /\ ctxErr' = CtxAfter(ctxErr, e)

\* A chunk loop that stops one frame early: for len(buffer) > FrameSize.
ChunkOrSelectStrict(b) == IF Len(b) > FrameSize THEN "chunk" ELSE "select"

\* for len(buffer) >= FrameSize { ... }: where the writer goes after an append
\* or after a frame was sent.
ChunkOrSelect(b) == IF Len(b) >= FrameSize THEN "chunk" ELSE "select"

\* append(buffer, input...) keeps a nil slice nil when nothing is appended.
NilAfterAppend(isNil, in) == isNil /\ Len(in) = 0

\* case input, open = <-sttc.writerChan with open = true: the caller's send
\* and the writer's receive are one rendezvous on the unbuffered channel.
WriterRecv(n) ==
    /\ ~panicked
    /\ wpc = "select"
    /\ ~writeChanClosed
    /\ nbatches < MaxBatches
    /\ nbatches' = nbatches + 1
    /\ nsamples' = nsamples + n
    /\ input' = Batch(nsamples, n)
    /\ IF bufferNil
          THEN /\ wpc' = "prime"
               /\ UNCHANGED buffer
          ELSE /\ buffer' = buffer \o input'
               /\ wpc' = ChunkOrSelect(buffer')
    /\ UNCHANGED <<writeChanClosed, callerStopped, bufferNil, werr, ticks, nflush,
                   readerVars, connState, sock, chanVars, markerVars, codec, service, ctxErr,
                   cancelAt, groupErr, doneVars>>

\* if buffer == nil { send(one second of silence) }; buffer = append(...)
WriterPrime ==
    /\ ~panicked
    /\ wpc = "prime"
    /\ IF SendOK
          THEN /\ sock' = Written(sock, MessagePackAudio(oneSecondOfSilence), "writer")
               /\ buffer' = buffer \o input
               /\ bufferNil' = NilAfterAppend(bufferNil, input)
               /\ wpc' = ChunkOrSelect(buffer')
               /\ UNCHANGED <<werr, groupErr, ctxErr>>
          ELSE /\ \E e \in SendErrs : WriterReturn(e)
               /\ UNCHANGED <<sock, buffer, bufferNil>>
    /\ UNCHANGED <<callerVars, input, ticks, nflush, readerVars, connState, chanVars,
                   markerVars, codec, service, cancelAt, doneVars>>

\* send(buffer[:FrameSize]); buffer = buffer[FrameSize:]
WriterChunk ==
    /\ ~panicked
    /\ wpc = "chunk"
    /\ IF SendOK
          THEN /\ sock' = Written(sock, MessagePackAudio(SubSeq(buffer, 1, FrameSize)),
                                  "writer")
               /\ buffer' = SubSeq(buffer, FrameSize + 1, Len(buffer))
               /\ wpc' = ChunkOrSelect(buffer')
               /\ UNCHANGED <<werr, groupErr, ctxErr>>
          ELSE /\ \E e \in SendErrs : WriterReturn(e)
               /\ UNCHANGED <<sock, buffer>>
    /\ UNCHANGED <<callerVars, input, bufferNil, ticks, nflush, readerVars, connState,
                   chanVars, markerVars, codec, service, cancelAt, doneVars>>

\* A finish that always enters the flush loop: for len(buffer) >= 0.
FlushAlways(b) == "flush"

\* for len(buffer) > 0 { ... }: the condition of the flush loop.
FlushOrMarker(b) == IF Len(b) > 0 THEN "flush" ELSE "marker"

\* case input, open = <-sttc.writerChan with open = false.
WriterRecvClosed ==
    /\ ~panicked
    /\ wpc = "select"
    /\ writeChanClosed
    /\ wpc' = FlushOrMarker(buffer)
    /\ UNCHANGED <<callerVars, input, buffer, bufferNil, werr, ticks, nflush,
                   readerVars, connState, sock, chanVars, markerVars, codec, service, ctxErr,
                   cancelAt, groupErr, doneVars>>

\* A flush that sends the leftover as it is.
PadNothing(b) == b

\* if len(buffer) < FrameSize { buffer = append(buffer, make(...)...) }
Pad(b) == IF Len(b) < FrameSize THEN b \o Zeros(FrameSize - Len(b)) ELSE b

\* buffer = buffer[:]  (the full slice expression: the same elements)
SliceAll(b) == SubSeq(b, 1, Len(b))

\* The count of flush iterations; beyond MaxFlush only its parity is kept.
FlushCount(n) == IF n <= MaxFlush THEN n + 1 ELSE MaxFlush

\* One iteration of the flush loop: pad, send, buffer = buffer[:].
WriterFlush ==
    /\ ~panicked
    /\ wpc = "flush"
    /\ IF SendOK
          THEN /\ sock' = IF nflush < MaxFlush
                             THEN Written(sock, MessagePackAudio(Pad(buffer)), "writer")
                             ELSE sock
               /\ nflush' = FlushCount(nflush)
               /\ buffer' = SliceAll(Pad(buffer))
               /\ wpc' = FlushOrMarker(buffer')
               /\ UNCHANGED <<werr, groupErr, ctxErr>>
          ELSE /\ \E e \in SendErrs : WriterReturn(e)
               /\ UNCHANGED <<sock, buffer, nflush>>
    /\ UNCHANGED <<callerVars, input, bufferNil, ticks, readerVars, connState,
                   chanVars, markerVars, codec, service, cancelAt, doneVars>>

\* send(MessagePackMarker{ID: 0}); then the ticker loop.
WriterMarker ==
    /\ ~panicked
    /\ wpc = "marker"
    /\ IF SendOK
          THEN /\ sock' = Written(sock, MessagePackMarker(EndMarkerID), "writer")
               /\ wpc' = "ticker"
               /\ UNCHANGED <<werr, groupErr, ctxErr>>
          ELSE /\ \E e \in SendErrs : WriterReturn(e)
               /\ UNCHANGED sock
    /\ UNCHANGED <<callerVars, input, buffer, bufferNil, ticks, nflush, readerVars,
                   connState, chanVars, markerVars, codec, service, cancelAt, doneVars>>

\* case <-ticker.C: send(one second of silence)
WriterTick ==
    /\ ~panicked
    /\ wpc = "ticker"
    /\ ticks < MaxTicks \/ ~SendOK
    /\ IF SendOK
          THEN /\ sock' = Written(sock, MessagePackAudio(oneSecondOfSilence), "writer")
               /\ ticks' = ticks + 1
               /\ UNCHANGED <<wpc, werr, groupErr, ctxErr>>
          ELSE /\ \E e \in SendErrs : WriterReturn(e)
               /\ UNCHANGED <<sock, ticks>>
    /\ UNCHANGED <<callerVars, input, buffer, bufferNil, nflush, readerVars, connState,
                   chanVars, markerVars, codec, service, cancelAt, doneVars>>

\* case <-sttc.flushChan: return
WriterFlushed ==
    /\ ~panicked
    /\ wpc = "ticker"
    /\ flushClosed
    /\ WriterReturn("nil")
    /\ UNCHANGED <<callerVars, input, buffer, bufferNil, ticks, nflush, readerVars,
                   connState, sock, chanVars, markerVars, codec, service, cancelAt, doneVars>>

\* case <-sttc.workersCtx.Done(): return
WriterCtxDone ==
    /\ ~panicked
    /\ wpc = "select"
    /\ cancelled
    /\ WriterReturn("nil")
    /\ UNCHANGED <<callerVars, input, buffer, bufferNil, ticks, nflush, readerVars,
                   connState, sock, chanVars, markerVars, codec, service, cancelAt, doneVars>>

\* The steps the writer goroutine takes on its own.
WriterStep ==
    \/ WriterPrime
    \/ WriterChunk
    \/ WriterRecvClosed
    \/ WriterFlush
    \/ WriterMarker
    \/ WriterTick
    \/ WriterFlushed
    \/ WriterCtxDone

\* ---------------------------------------------------------------- reader
\* What the server can deliver: a websocket message kind, the discriminator
\* of the payload, the field the reader looks at (Step: buffered_pcm,
\* Marker: id) and whether the payload decodes.
InboundVals(t) ==
    CASE t = "Step" -> {0, 1}
      [] t = "Marker" -> 0..MaxMarkerCalls
      [] OTHER -> {0}

BodyDecoded == {"Step", "Word", "EndWord", "Marker"}

\* bad = "header": the payload is no MessagePack map with a type; bad = "body":
\* the header decodes, the fields of the variant do not.
Inbound ==
    {[ws |-> "binary", type |-> t, val |-> v, bad |-> "no"] :
        t \in MessagePackTypes, v \in 0..MaxMarkerCalls} \cup
    {[ws |-> "binary", type |-> t, val |-> 0, bad |-> "body"] :
        t \in BodyDecoded \cup {"Ready"}} \cup
    {[ws |-> "binary", type |-> "Bogus", val |-> 0, bad |-> "header"]} \cup
    {[ws |-> "text", type |-> "Ready", val |-> 0, bad |-> "no"]}

WellFormedInbound == {m \in Inbound : m.val \in InboundVals(m.type)}

Event(m) == [type |-> m.type, val |-> m.val]

NoEvent == [type |-> "none", val |-> 0]

DispatchBody(m, dr) ==
    CASE m.ws = "text" -> [act |-> "fail", err |-> "text"]
      [] m.ws = "binary" /\ m.bad = "header" -> [act |-> "fail", err |-> "decode"]
      [] m.ws = "binary" /\ m.bad # "header" /\ m.type = "Ready" ->
            [act |-> "publish", err |-> "nil"]
      [] m.ws = "binary" /\ m.bad # "header" /\ m.type = "Step" ->
            IF m.bad = "body" THEN [act |-> "fail", err |-> "decode"]
            ELSE IF dr
                 THEN IF m.val = 0
                         THEN [act |-> "exit", err |-> "nil"]
                         ELSE [act |-> "discard", err |-> "nil"]
                 ELSE [act |-> "publish", err |-> "nil"]
      [] m.ws = "binary" /\ m.bad # "header" /\ m.type \in {"Word", "EndWord"} ->
            IF m.bad = "body" THEN [act |-> "fail", err |-> "decode"]
            ELSE [act |-> "publish", err |-> "nil"]
      [] m.ws = "binary" /\ m.bad # "header" /\ m.type = "Marker" ->
            IF m.bad = "body" THEN [act |-> "fail", err |-> "decode"]
            ELSE IF m.val = EndMarkerID
                 THEN [act |-> "drain", err |-> "nil"]
                 ELSE [act |-> "publish", err |-> "nil"]
      [] OTHER -> [act |-> "fail", err |-> "unexpected"]

\* A reader that drops every Marker once it drains.
DispatchDroppingMarkers(m, dr) ==
    IF dr /\ m.ws = "binary" /\ m.type = "Marker" /\ m.bad = "no"
       THEN [act |-> "discard", err |-> "nil"]
       ELSE DispatchBody(m, dr)

\* A reader that skips a websocket text message.
DispatchSkippingText(m, dr) ==
    IF m.ws = "text" THEN [act |-> "discard", err |-> "nil"] ELSE DispatchBody(m, dr)

\* A reader that forwards a type it does not know.
DispatchForwardingUnknown(m, dr) ==
    IF m.ws = "binary" /\ m.bad = "no" /\
       m.type \notin {"Ready", "Step", "Word", "EndWord", "Marker"}
       THEN [act |-> "publish", err |-> "nil"]
       ELSE DispatchBody(m, dr)

\* A reader that hands the EndOfStream to the caller.
DispatchForwardingEos(m, dr) ==
    IF m.ws = "binary" /\ m.type = "Eos" /\ m.bad = "no"
       THEN [act |-> "publish", err |-> "nil"]
       ELSE DispatchBody(m, dr)

\* A reader that takes any Marker for the end marker.
DispatchDrainingOnAnyMarker(m, dr) ==
    IF m.ws = "binary" /\ m.type = "Marker" /\ m.bad = "no"
       THEN [act |-> "drain", err |-> "nil"]
       ELSE DispatchBody(m, dr)

\* A reader that keeps forwarding the Steps that still report buffered audio.
DispatchForwardingDrainSteps(m, dr) ==
    DispatchBody(m, dr /\ ~(m.type = "Step" /\ m.val # 0))

\* The body of the reader's loop after conn.Read returned a message: what the
\* reader does with message m when its draining flag is dr.
Dispatch(m, dr) == DispatchBody(m, dr)

\* A reader whose error is lost: it ends and reports nil.
ReaderReturnSwallowing(e, how) ==
    /\ rpc' = "done"
    /\ rerr' = "nil"
    /\ rexit' = how
    /\ UNCHANGED <<groupErr, ctxErr>>

ReaderReturn(e, how) ==
    /\ rpc' = "done"
    /\ rerr' = e
    /\ rexit' = how
    /\ groupErr' = GroupErr(groupErr, e)
    /\ ctxErr' = CtxAfter(ctxErr, e)

\* conn.Read returned message m; one iteration of a reader's loop up to its
\* next blocking point, d being what the reader's switch decides for m.
ReaderIteration(m, d) ==
    /\ ~panicked
    /\ rpc = "read"
    /\ connState = "open"
    /\ ~cancelled
    /\ nread < MaxInbound
    /\ nread' = nread + 1
    /\ received' = Append(received, m)
    /\ CASE d.act = "fail" ->
               /\ ReaderReturn(d.err, "error")
               /\ UNCHANGED <<pending, draining, flushClosed, panicked>>
         [] d.act = "publish" ->
               /\ rpc' = "publish"
               /\ pending' = Event(m)
               /\ UNCHANGED <<draining, rerr, rexit, groupErr, ctxErr, flushClosed,
                              panicked>>
         [] d.act = "discard" ->
               UNCHANGED <<rpc, pending, draining, rerr, rexit, groupErr, ctxErr,
                           flushClosed, panicked>>
         [] d.act = "drain" ->
               \* close(sttc.flushChan); draining = true
               /\ IF flushClosed
                     THEN /\ panicked' = TRUE
                          /\ UNCHANGED <<flushClosed, draining>>
                     ELSE /\ flushClosed' = TRUE
                          /\ draining' = TRUE
                          /\ UNCHANGED panicked
               /\ UNCHANGED <<rpc, pending, rerr, rexit, groupErr, ctxErr>>
         [] d.act = "exit" ->
               /\ ReaderReturn("nil", "drained")
               /\ UNCHANGED <<pending, draining, flushClosed, panicked>>
    /\ UNCHANGED <<callerVars, writerVars, connState, sock, published,
                   readerChanClosed, markerVars, codec, service, cancelAt, doneVars>>

\* One iteration of the STT reader's loop.
ReaderRead(m) == ReaderIteration(m, Dispatch(m, draining))

\* A reader that closes the read channel on the server's close and goes on
\* reading.
ReaderReadCloseAndGoOn ==
    /\ ~panicked
    /\ rpc = "read"
    /\ connState = "open"
    /\ ~cancelled
    /\ ~readerChanClosed
    /\ readerChanClosed' = TRUE
    /\ UNCHANGED <<callerVars, writerVars, readerVars, connState, sock, published,
                   flushClosed, panicked, markerVars, codec, service, ctxErr, cancelAt,
                   groupErr, doneVars>>

\* conn.Read returned a CloseError with StatusNoStatusRcvd: the regular close
\* from the server.
ReaderReadClose ==
    /\ ~panicked
    /\ rpc = "read"
    /\ connState = "open"
    /\ ~cancelled
    /\ connState' = "closed"
    /\ readerChanClosed' = TRUE
    /\ ReaderReturn("nil", "close")
    /\ UNCHANGED <<callerVars, writerVars, pending, draining, nread, received, sock,
                   published, flushClosed, panicked,
                   markerVars, codec, service, cancelAt, doneVars>>

\* conn.Read returned any other error: the scope is done or the transport
\* failed.
ReadErrs == (IF cancelled THEN {ctxErr} ELSE {}) \cup
            (IF connState = "broken" THEN {"transport"} ELSE {})

ReaderReadError ==
    /\ ~panicked
    /\ rpc = "read"
    /\ \E e \in ReadErrs : ReaderReturn(e, "error")
    /\ UNCHANGED <<callerVars, writerVars, pending, draining, nread, received, connState,
                   sock, chanVars, markerVars, codec, service, cancelAt, doneVars>>

\* A read channel that delivers an event twice.
ReaderPublishTwice ==
    /\ ~panicked
    /\ rpc = "publish"
    /\ ~callerStopped
    /\ published' = Append(Append(published, pending), pending)
    /\ pending' = NoEvent
    /\ rpc' = "read"
    /\ UNCHANGED <<callerVars, writerVars, draining, rerr, rexit, nread, received,
                   connState, sock, readerChanClosed, flushClosed, panicked,
                   markerVars, codec, service, ctxErr, cancelAt, groupErr, doneVars>>

\* sttc.readerChan <- event: completes when the caller receives.
ReaderPublish ==
    /\ ~panicked
    /\ rpc = "publish"
    /\ ~callerStopped
    /\ published' = Append(published, pending)
    /\ pending' = NoEvent
    /\ rpc' = "read"
    /\ UNCHANGED <<callerVars, writerVars, draining, rerr, rexit, nread, received,
                   connState, sock, readerChanClosed, flushClosed, panicked,
                   markerVars, codec, service, ctxErr, cancelAt, groupErr, doneVars>>

\* The steps the reader goroutine takes without a message from the server or
\* a receive of the caller.
ReaderStep == ReaderReadError

\* ---------------------------------------------------------------- SendMarker
\* A generator that hands out the counter's value before the increment.
NextMarkerIDStale(gen) == gen

\* markerID = sttc.markerIDsGen.Add(1)
NextMarkerID(gen) == gen + 1

SendMarkerAdd(c) ==
    /\ ~panicked
    /\ smPc[c] = "idle"
    /\ markerIDsGen' = NextMarkerID(markerIDsGen)
    /\ smId' = [smId EXCEPT ![c] = markerIDsGen']
    /\ issued' = Append(issued, markerIDsGen')
    /\ smPc' = [smPc EXCEPT ![c] = "send"]
    /\ UNCHANGED <<callerVars, writerVars, readerVars, connState, sock, chanVars,
                   ctxErr, cancelAt, groupErr, doneVars, codec, service>>

\* sttc.send(&MessagePackMarker{ID: markerID}) on the calling goroutine.
SendMarkerSend(c) ==
    /\ ~panicked
    /\ smPc[c] = "send"
    /\ IF SendOK
          THEN /\ sock' = Written(sock, MessagePackMarker(smId[c]), "caller")
               /\ smPc' = [smPc EXCEPT ![c] = "ok"]
          ELSE /\ smPc' = [smPc EXCEPT ![c] = "failed"]
               /\ UNCHANGED sock
    /\ UNCHANGED <<callerVars, writerVars, readerVars, connState, chanVars,
                   markerIDsGen, smId, issued, ctxErr, cancelAt, groupErr, doneVars,
                   codec, service>>

\* ---------------------------------------------------------------- caller, environment
\* close(sttc.GetWriteChan())
CallerClose ==
    /\ ~panicked
    /\ ~writeChanClosed
    /\ writeChanClosed' = TRUE
    /\ UNCHANGED <<nbatches, nsamples, callerStopped, writerVars, readerVars,
                   connState, sock, chanVars,
                   markerVars, codec, service, ctxErr, cancelAt, groupErr,
                   doneVars>>

\* The caller stops receiving from the read channel.
CallerStop ==
    /\ ~panicked
    /\ ~callerStopped
    /\ callerStopped' = TRUE
    /\ UNCHANGED <<writeChanClosed, nbatches, nsamples, writerVars, readerVars,
                   connState, sock, chanVars,
                   markerVars, codec, service, ctxErr, cancelAt, groupErr,
                   doneVars>>

\* The context given to Connect is cancelled or its deadline passes.
CallerCancel(cause) ==
    /\ ~panicked
    /\ ~cancelled
    /\ ctxErr' = cause
    /\ cancelAt' = IF wpc = "select" /\ rpc = "read" THEN "blocked" ELSE "busy"
    /\ UNCHANGED <<callerVars, writerVars, readerVars, connState, sock, chanVars,
                   markerVars, codec, service, groupErr, doneVars>>

\* The transport fails.
ConnBreak ==
    /\ ~panicked
    /\ connState = "open"
    /\ connState' = "broken"
    /\ UNCHANGED <<callerVars, writerVars, readerVars, sock, chanVars, markerVars, codec, service,
                   ctxErr, cancelAt, groupErr, doneVars>>

\* ---------------------------------------------------------------- Done
\* Done() as it was before the deadline was told apart: only a cancellation
\* is a going away.
CloseCodeForCanceledOnly(e) ==
    IF e = "canceled" THEN "StatusGoingAway" ELSE "StatusInternalError"

CloseCodeFor(e) ==
    IF e \in {"canceled", "deadline"} THEN "StatusGoingAway" ELSE "StatusInternalError"

\* workers.Wait() returned: both goroutines are done.  ce is what conn.Close
\* returns on the normal closure.
Done(ce) ==
    /\ ~panicked
    /\ wpc = "done"
    /\ rpc = "done"
    /\ doneRet = "none"
    /\ IF groupErr # "nil"
          THEN /\ closeCode' = CloseCodeFor(groupErr)
               /\ doneRet' = groupErr
          ELSE /\ closeCode' = "StatusNormalClosure"
               /\ doneRet' = IF ce = "EOF" THEN "nil" ELSE ce
    /\ ctxErr' = IF ctxErr = "none" THEN "canceled" ELSE ctxErr
    /\ connState' = IF connState = "open" THEN "closed" ELSE connState
    /\ UNCHANGED <<callerVars, writerVars, readerVars, sock, chanVars, markerVars, codec, service,
                   cancelAt, groupErr>>

\* ---------------------------------------------------------------- servers
\* A server that only echoes: it delivers a Marker only after a Marker with
\* that id was written to the socket, and each id once.
WrittenMarkerIDs == {sock[i].msg.id : i \in {j \in 1..Len(sock) : sock[j].msg.type = "Marker"}}

DeliveredMarkerIDs ==
    {received[i].val : i \in {j \in 1..Len(received) : received[j].type = "Marker"}}

Echoable(m) ==
    m.type = "Marker" => (m.val \in WrittenMarkerIDs /\ m.val \notin DeliveredMarkerIDs)

Msg(t, v) == [ws |-> "binary", type |-> t, val |-> v, bad |-> "no"]

\* What the server sends during the drain handshake.
DrainInbound == {Msg("Marker", EndMarkerID), Msg("Step", 0), Msg("Step", 1)}

\* ---------------------------------------------------------------- Next
\* The outbound side: a caller that submits batches, a server that echoes the
\* end marker and reports its buffer.
NextOut ==
    \/ \E n \in 0..MaxBatchLen : WriterRecv(n)
    \/ WriterStep
    \/ \E m \in DrainInbound : Echoable(m) /\ ReaderRead(m)
    \/ ReaderReadClose
    \/ ReaderStep
    \/ ReaderPublish
    \/ CallerClose
    \/ CallerCancel("canceled")
    \/ ConnBreak
    \/ \E ce \in {"nil", "EOF", "closeerr"} : Done(ce)

SpecOut == Init /\ [][NextOut]_vars

\* The goroutines are scheduled: a worker that can take a step on its own
\* eventually takes one, and Done() returns once both workers have.
FairOut ==
    /\ SpecOut
    /\ WF_vars(WriterStep)
    /\ WF_vars(ReaderStep)
    /\ WF_vars(\E ce \in {"nil", "EOF", "closeerr"} : Done(ce))

\* The inbound side: a server that delivers any message at any time (Markers
\* with the reserved id or the first caller id), a caller that submits nothing.
AnyInbound == {m \in WellFormedInbound : m.val <= 1}

NextIn ==
    \/ \E m \in AnyInbound : ReaderRead(m)
    \/ ReaderReadClose
    \/ ReaderStep
    \/ ReaderPublish
    \/ WriterCtxDone
    \/ CallerStop
    \/ CallerCancel("canceled")
    \/ ConnBreak
    \/ \E ce \in {"nil", "EOF", "closeerr"} : Done(ce)

SpecIn == Init /\ [][NextIn]_vars

FairIn ==
    /\ SpecIn
    /\ WF_vars(WriterCtxDone)
    /\ WF_vars(ReaderStep)
    /\ WF_vars(\E ce \in {"nil", "EOF", "closeerr"} : Done(ce))

\* Latency markers: concurrent SendMarker calls beside a writer that emits
\* one batch and reaches the end of the input.
NextMark ==
    \/ \E c \in Callers : SendMarkerAdd(c)
    \/ \E c \in Callers : SendMarkerSend(c)
    \/ \E n \in 0..MaxBatchLen : nbatches = 0 /\ WriterRecv(n)
    \/ WriterPrime
    \/ WriterChunk
    \/ WriterRecvClosed
    \/ WriterFlush
    \/ WriterMarker
    \/ WriterTick
    \/ WriterCtxDone
    \/ ReaderReadClose
    \/ ReaderStep
    \/ CallerClose
    \/ CallerCancel("canceled")
    \/ ConnBreak
    \/ \E ce \in {"nil", "EOF", "closeerr"} : Done(ce)

SpecMark == Init /\ [][NextMark]_vars

\* Scenario B of the specification: one batch, then the close of the write
\* channel, against a server that cooperates: it echoes the end marker once
\* it was written and, once the reader drains, reports an empty buffer.
WriterStepShort ==
    \/ WriterPrime
    \/ WriterChunk
    \/ WriterRecvClosed
    \/ WriterFlush
    \/ WriterMarker
    \/ WriterTick
    \/ WriterFlushed

ServerStep == ~draining /\ nread + 2 < MaxInbound /\ ReaderRead(Msg("Step", 1))

ServerEcho ==
    /\ Echoable(Msg("Marker", EndMarkerID))
    /\ nread + 1 < MaxInbound
    /\ ReaderRead(Msg("Marker", EndMarkerID))

ServerBusy == draining /\ nread + 1 < MaxInbound /\ ReaderRead(Msg("Step", 1))

ServerDrained == draining /\ ReaderRead(Msg("Step", 0))

DoneClean == \E ce \in {"nil", "EOF"} : Done(ce)

NextShort ==
    \/ \E n \in 1..MaxBatchLen : nbatches = 0 /\ WriterRecv(n)
    \/ WriterStepShort
    \/ ServerStep
    \/ ServerEcho
    \/ ServerBusy
    \/ ServerDrained
    \/ ReaderPublish
    \/ CallerClose
    \/ DoneClean

FairShort ==
    /\ Init
    /\ [][NextShort]_vars
    /\ WF_vars(WriterStepShort)
    /\ WF_vars(ServerEcho)
    /\ WF_vars(ServerDrained)
    /\ WF_vars(ReaderPublish)
    /\ WF_vars(DoneClean)

\* ================================================================ claims
EndMarkerWrites ==
    {i \in 1..Len(sock) : sock[i].msg = MessagePackMarker(EndMarkerID)}

\* C1: the drain handshake happens exactly once: after the writer has seen
\* the write channel closed it writes the Marker with id 0, and never twice;
\* the reader drains only after it read that Marker; the reader ends on a
\* Step with count 0 read while draining.  The writer is excused only when it
\* returns (a failed send, a cancelled scope).
C1_DrainHandshakeOnce ==
    /\ [](Cardinality(EndMarkerWrites) <= 1)
    /\ [](draining => Msg("Marker", EndMarkerID) \in {received[i] : i \in 1..Len(received)})
    /\ [](rexit = "drained" => draining /\ received[Len(received)] = Msg("Step", 0))
    /\ (wpc \in {"flush", "marker"}) ~> (Cardinality(EndMarkerWrites) = 1 \/ wpc = "done")

\* A frame that ends in padding: caller samples are nonzero, silence is a
\* whole second.
IsPaddedFrame(m) == m.type = "Audio" /\ Len(m.pcm) = FrameSize /\ m.pcm[FrameSize] = 0

\* C2: the zero-padded leftover frame is written once, and the message
\* written after it is the Marker with id 0.
C2_LeftoverOnceThenMarker ==
    \A i \in 1..Len(sock) :
        (IsPaddedFrame(sock[i].msg) /\ i < Len(sock))
            => sock[i + 1].msg = MessagePackMarker(EndMarkerID)

\* The socket carries the priming silence, one padded frame with the samples,
\* then the Marker with id 0.
ShortInputOnSocket ==
    /\ Len(sock) >= 3
    /\ sock[1].msg = MessagePackAudio(oneSecondOfSilence)
    /\ sock[2].msg = MessagePackAudio(Pad(Batch(0, nsamples)))
    /\ sock[3].msg = MessagePackMarker(EndMarkerID)

\* C3: a short input (one batch, shorter than a frame), then the close of the
\* write channel, against a cooperating server: the socket carries silence,
\* the frame and the end marker, both workers stop and Done() returns nil.
C3_ShortInputEndsClean ==
    (writeChanClosed /\ nbatches = 1 /\ nsamples \in 1..(FrameSize - 1))
        ~> (wpc = "done" /\ rpc = "done" /\ doneRet = "nil" /\ ShortInputOnSocket)

\* C4: when the reader ends on the Step with count 0 while draining, the read
\* channel is closed.
C4_DrainEndClosesReadChan == rexit = "drained" => readerChanClosed

\* C5: whenever the reader has returned, for whatever reason, the read
\* channel is closed.
C5_ReaderExitClosesReadChan == rpc = "done" => readerChanClosed

\* C6: a reader blocked sending on the read channel stops once the scope is
\* cancelled, although the caller no longer receives, and Done() returns.
C6_PublishRacesCancel ==
    (rpc = "publish" /\ callerStopped /\ cancelled) ~> (rpc = "done" /\ doneRet # "none")

\* C7: after a cancellation that finds the writer waiting on the write
\* channel and the reader waiting in conn.Read, nothing more is written to
\* the socket or published, and both workers return.
C7_CancelWhileBlocked ==
    /\ [][cancelAt = "blocked" => (sock' = sock /\ published' = published)]_vars
    /\ (cancelAt = "blocked") ~> (wpc = "done" /\ rpc = "done")

C7_Witness ==
    /\ cancelAt = "blocked"
    /\ wpc = "done"
    /\ rpc = "done"
    /\ Len(sock) >= 1
    /\ Len(published) >= 1

\* C8: every message on the socket was written by the writer goroutine.
C8_OnlyWriterWrites == \A i \in 1..Len(sock) : sock[i].by = "writer"

\* C9: the ids SendMarker obtains are never the reserved id, start at 1,
\* increase strictly in the order of the calls and are pairwise distinct,
\* whether or not a send failed.
C9_MarkerIDs ==
    /\ \A i \in 1..Len(issued) : issued[i] # EndMarkerID /\ issued[i] >= 1
    /\ Len(issued) >= 1 => issued[1] = 1
    /\ \A i, j \in 1..Len(issued) : i < j => issued[i] < issued[j]
    /\ \A c, d \in Callers :
          (c # d /\ smPc[c] # "idle" /\ smPc[d] # "idle") => smId[c] # smId[d]
    /\ \A i \in 1..Len(sock) : sock[i].by = "caller" => sock[i].msg.id # EndMarkerID

C9_Witness ==
    \E c, d \in Callers : smPc[c] = "failed" /\ smPc[d] = "ok" /\ smId[c] < smId[d]

\* The events handed to the read channel so far: received by the caller, or
\* held by the reader blocked in the send.
Handed == IF rpc = "publish" THEN Append(published, pending) ELSE published

NonzeroMarkers(s) == SelectSeq(s, LAMBDA e : e.type = "Marker" /\ e.val # EndMarkerID)

\* The well-formed Markers among the messages read.
MarkersRead ==
    SelectSeq(received, LAMBDA m : m.ws = "binary" /\ m.type = "Marker" /\ m.bad = "no")

ToEvents(s) == [i \in 1..Len(s) |-> Event(s[i])]

\* C10: a Marker with id 0 is never handed to the read channel; reading one
\* sets draining and closes the flush channel; every Marker with a nonzero id
\* that was read is handed to the read channel, draining or not.
C10_MarkerDemux ==
    /\ \A i \in 1..Len(Handed) :
          ~(Handed[i].type = "Marker" /\ Handed[i].val = EndMarkerID)
    /\ (\E i \in 1..Len(MarkersRead) : MarkersRead[i].val = EndMarkerID)
          => (draining /\ flushClosed)
    /\ NonzeroMarkers(Handed) = NonzeroMarkers(ToEvents(MarkersRead))

C10_Witness ==
    /\ draining
    /\ Len(published) >= 2
    /\ published[Len(published)].type = "Marker"
    /\ received[1] = Msg("Marker", EndMarkerID)

\* ================================================================ Done()
\* The outcomes of a connection: a writer that sends the first batch, a
\* server that delivers an event, a text message or a type the reader does
\* not handle, or closes; a context that is cancelled or whose deadline
\* passes; a transport that fails.
DoneInbound ==
    {Msg("Step", 1), Msg("Audio", 0),
     [ws |-> "text", type |-> "Ready", val |-> 0, bad |-> "no"]}

NextDone ==
    \/ \E n \in 1..MaxBatchLen : nbatches = 0 /\ WriterRecv(n)
    \/ WriterPrime
    \/ WriterChunk
    \/ WriterCtxDone
    \/ \E m \in DoneInbound : ReaderRead(m)
    \/ ReaderReadClose
    \/ ReaderStep
    \/ ReaderPublish
    \/ CallerCancel("canceled")
    \/ CallerCancel("deadline")
    \/ ConnBreak
    \/ \E ce \in {"nil", "EOF", "closeerr"} : Done(ce)

SpecDone == Init /\ [][NextDone]_vars

\* The non-nil errors the workers returned.
WorkerErrs == {werr, rerr} \ {"nil", "none"}

\* C11: Done() closes the transport only after both workers have returned;
\* the close code is 'going away' when the error returned is a cancellation
\* or a deadline, 'internal error' for any other error, 'normal closure' when
\* both workers returned nil; in the nil case Done() returns what the close
\* returned, except that an EOF becomes nil.
C11_DoneCloseCode ==
    /\ closeCode # "none" => (wpc = "done" /\ rpc = "done" /\ doneRet # "none")
    /\ doneRet # "EOF"
    /\ doneRet # "none" =>
          IF WorkerErrs = {}
             THEN closeCode = "StatusNormalClosure" /\ doneRet \in {"nil", "closeerr"}
             ELSE /\ doneRet \in WorkerErrs
                  /\ closeCode = IF doneRet \in {"canceled", "deadline"}
                                    THEN "StatusGoingAway"
                                    ELSE "StatusInternalError"

C11_Witness == closeCode = "StatusGoingAway" /\ doneRet = "deadline"

\* ================================================================ failures
\* A worker fails: the transport breaks under the writer's first batch or
\* under the reader, or the server sends what the reader rejects.  Nobody
\* cancels from outside.  The caller follows the README: it receives from
\* the read channel while the connection's context is valid and leaves it
\* once the context is done.
CallerLeave == cancelled /\ CallerStop

WriterStepErr ==
    \/ WriterPrime
    \/ WriterChunk
    \/ WriterCtxDone

NextErr ==
    \/ \E n \in 1..MaxBatchLen : nbatches = 0 /\ WriterRecv(n)
    \/ WriterStepErr
    \/ \E m \in DoneInbound : ReaderRead(m)
    \/ ReaderStep
    \/ ReaderPublish
    \/ CallerLeave
    \/ ConnBreak
    \/ \E ce \in {"nil", "EOF", "closeerr"} : Done(ce)

FairErr ==
    /\ Init
    /\ [][NextErr]_vars
    /\ WF_vars(WriterStepErr)
    /\ WF_vars(ReaderStep)
    /\ WF_vars(ReaderPublish)
    /\ WF_vars(\E ce \in {"nil", "EOF", "closeerr"} : Done(ce))

\* C12: when a worker fails the scope is cancelled, the other worker exits,
\* and Done() returns the first error a worker returned, not the
\* cancellation the sibling saw afterwards.
C12_FirstErrorWins ==
    /\ [](WorkerErrs # {} => cancelled)
    /\ [](doneRet # "none" /\ WorkerErrs # {} => doneRet \in WorkerErrs \ {"canceled"})
    /\ (WorkerErrs # {}) ~> (wpc = "done" /\ rpc = "done" /\ doneRet # "none")

\* ================================================================ disconnect
\* Scenario D of the specification: the transport fails in mid-stream, while
\* both workers run and the caller still submits and receives.
Disconnect == wpc # "done" /\ rpc # "done" /\ ~writeChanClosed /\ ConnBreak

Submit == \E n \in 1..MaxBatchLen : WriterRecv(n)

CutInbound == {Msg("Step", 1), Msg("Word", 0)}

NextCut ==
    \/ Submit
    \/ WriterStepErr
    \/ \E m \in CutInbound : ReaderRead(m)
    \/ ReaderStep
    \/ ReaderPublish
    \/ Disconnect
    \/ \E ce \in {"nil", "EOF", "closeerr"} : Done(ce)

FairCut ==
    /\ Init
    /\ [][NextCut]_vars
    /\ WF_vars(WriterStepErr)
    /\ WF_vars(ReaderStep)
    /\ WF_vars(ReaderPublish)
    /\ WF_vars(\E ce \in {"nil", "EOF", "closeerr"} : Done(ce))

\* C13: once the transport has failed in mid-stream and a worker has returned
\* the transport error, no event is published on the read channel any more,
\* and Done() returns the transport error.
C13_AbruptDisconnect ==
    /\ [][(werr = "transport" \/ rerr = "transport") => published' = published]_vars
    /\ [](connState = "broken" /\ doneRet # "none" => doneRet = "transport")
    /\ (connState = "broken") ~> (doneRet = "transport")

\* C14: a graceful close by the server is no error: the reader closes the
\* read channel and returns nil, and unless the caller cancels, Done()
\* returns no worker's error (nil, or what its own close of the transport
\* returns), also when the writer had not reached the end of the input.
C14_GracefulClose ==
    rexit = "close" =>
        /\ readerChanClosed
        /\ rerr = "nil"
        /\ (doneRet # "none" /\ cancelAt = "none") => doneRet \in {"nil", "closeerr"}

\* ================================================================ TTS
\* The TTS connection (src/unnamed/part_006) has the same fields as the STT
\* one without the flush channel and the marker counter: the connection
\* variables stand for a TTS connection in the TTS specification.  The k-th
\* string the caller submits is abstracted to k.
MessagePackText(text) == [type |-> "Text", text |-> text]

\* MessagePackHeader{Type: MessagePackTypeEoS}
MessagePackEoS == [type |-> "Eos"]

\* A writer that goes on after the end of the input.
TTSAfterWriteNeverExits(open) == "select"

\* if !open { return }
TTSAfterWrite(open) == IF open THEN "select" ELSE "done"

\* case input, open = <-ttsc.writerChan with open = true, up to the write.
TTSWriterRecv ==
    /\ ~panicked
    /\ wpc = "select"
    /\ ~writeChanClosed
    /\ nbatches < MaxBatches
    /\ nbatches' = nbatches + 1
    /\ IF SendOK
          THEN /\ sock' = Written(sock, MessagePackText(nbatches'), "writer")
               /\ wpc' = TTSAfterWrite(TRUE)
               /\ UNCHANGED <<werr, groupErr, ctxErr>>
          ELSE /\ \E e \in SendErrs : WriterReturn(e)
               /\ UNCHANGED sock
    /\ UNCHANGED <<writeChanClosed, nsamples, callerStopped, input, buffer, bufferNil,
                   ticks, nflush, readerVars, connState, chanVars, markerVars, codec, service,
                   cancelAt, doneVars>>

\* case input, open = <-ttsc.writerChan with open = false, up to the return.
TTSWriterRecvClosed ==
    /\ ~panicked
    /\ wpc = "select"
    /\ writeChanClosed
    /\ IF SendOK
          THEN /\ sock' = Written(sock, MessagePackEoS, "writer")
               /\ IF TTSAfterWrite(FALSE) = "done"
                     THEN WriterReturn("nil")
                     ELSE /\ wpc' = TTSAfterWrite(FALSE)
                          /\ UNCHANGED <<werr, groupErr, ctxErr>>
          ELSE /\ \E e \in SendErrs : WriterReturn(e)
               /\ UNCHANGED sock
    /\ UNCHANGED <<callerVars, input, buffer, bufferNil, ticks, nflush, readerVars,
                   connState, chanVars, markerVars, codec, service, cancelAt, doneVars>>

TTSWriterStep ==
    \/ TTSWriterRecvClosed
    \/ WriterCtxDone

\* The switch of the TTS reader: Text and Audio are decoded and published,
\* every other type is unexpected.
TTSDispatch(m) ==
    CASE m.ws = "text" -> [act |-> "fail", err |-> "text"]
      [] m.ws = "binary" /\ m.bad = "header" -> [act |-> "fail", err |-> "decode"]
      [] m.ws = "binary" /\ m.bad # "header" /\ m.type \in {"Text", "Audio"} ->
            IF m.bad = "body" THEN [act |-> "fail", err |-> "decode"]
            ELSE [act |-> "publish", err |-> "nil"]
      [] OTHER -> [act |-> "fail", err |-> "unexpected"]

TTSReaderRead(m) == ReaderIteration(m, TTSDispatch(m))

EoSWritten == \E i \in 1..Len(sock) : sock[i].msg = MessagePackEoS

\* The TTS server: Ready, if sent, is its first message; then Text and Audio;
\* it may also send what the reader rejects.  It ends the stream once it got
\* the EndOfStream.
TTSInbound ==
    {Msg("Ready", 0), Msg("Text", 0), Msg("Audio", 0), Msg("Step", 1),
     [ws |-> "text", type |-> "Ready", val |-> 0, bad |-> "no"]}

TTSServe == \E m \in TTSInbound : (m.type = "Ready" => nread = 0) /\ TTSReaderRead(m)

TTSServerClose == EoSWritten /\ ReaderReadClose

NextTTS ==
    \/ TTSWriterRecv
    \/ TTSWriterStep
    \/ TTSServe
    \/ TTSServerClose
    \/ ReaderStep
    \/ ReaderPublish
    \/ CallerClose
    \/ CallerCancel("canceled")
    \/ ConnBreak
    \/ \E ce \in {"nil", "EOF", "closeerr"} : Done(ce)

\* TTSClient.Connect
TTSConnect == Connect /\ codec = CodecIdle /\ service = "tts"

SpecTTS == TTSConnect /\ [][NextTTS]_vars

\* The server's part of scenario A: no message the TTS protocol does not
\* have, no cancellation, no transport failure.
HappyPath ==
    /\ cancelAt = "none"
    /\ connState # "broken"
    /\ \A i \in 1..Len(received) : received[i] \in {Msg("Ready", 0), Msg("Text", 0), Msg("Audio", 0)}

\* C15: on the TTS happy path every message read (Ready first, then Text and
\* Audio) is handed to the read channel in receipt order, the reader ends
\* only on the server's close, with the read channel closed, and Done()
\* returns nil (or what its own close returned).
C15_TTSHappyPath ==
    HappyPath =>
        /\ Handed = ToEvents(received)
        /\ rpc = "done" => (rexit = "close" /\ readerChanClosed /\ rerr = "nil")
        /\ doneRet # "none" => doneRet \in {"nil", "closeerr"}

\* The Text messages on the socket, in the order they were written.
TextsWritten == SelectSeq(sock, LAMBDA w : w.msg.type = "Text")

\* C16: the TTS writer writes one Text message per submitted string, in
\* submission order; the EndOfStream message is written at most once, only
\* after the close of the write channel, as the last message, and then the
\* writer has returned nil; a writer that returned nil while the scope was
\* not cancelled has written it, also when nothing was submitted.
C16_TTSWriter ==
    /\ \A i \in 1..Len(TextsWritten) : TextsWritten[i].msg = MessagePackText(i)
    /\ Len(TextsWritten) <= nbatches
    /\ werr \in {"none", "nil"} => Len(TextsWritten) = nbatches
    /\ \A i \in 1..Len(sock) : sock[i].by = "writer" /\ sock[i].msg.type \in {"Text", "Eos"}
    /\ \A i \in 1..Len(sock) :
          sock[i].msg = MessagePackEoS =>
              (i = Len(sock) /\ writeChanClosed /\ wpc = "done" /\ werr = "nil")
    /\ (wpc = "done" /\ werr = "nil" /\ ~cancelled) => EoSWritten

C16_Witness ==
    /\ Len(sock) = MaxBatches + 1
    /\ sock[Len(sock)].msg = MessagePackEoS
    /\ doneRet = "nil"

\* The Audio payloads on the socket, in the order they were written.
AudioWritten == SelectSeq(sock, LAMBDA w : w.msg.type = "Audio")

\* C17: whenever the writer waits on the write channel before the finish,
\* having received batches totalling N samples, it has written one second of
\* silence followed by floor(N / FrameSize) Audio messages of FrameSize
\* samples each, and nothing else.
C17_FramingCount ==
    (wpc = "select" /\ nbatches >= 1 /\ Len(sock) = Len(AudioWritten)) =>
        /\ Len(AudioWritten) = 1 + (nsamples \div FrameSize)
        /\ AudioWritten[1].msg = MessagePackAudio(oneSecondOfSilence)
        /\ \A i \in 2..Len(AudioWritten) : Len(AudioWritten[i].msg.pcm) = FrameSize

HandledTypes == {"Ready", "Step", "Word", "EndWord", "Marker"}

\* C19: a binary message whose discriminator is none of the variants the
\* reader handles makes the reader fail: it is the last message read, no
\* event is handed to the read channel for it, the scope is cancelled and
\* Done() returns the reader's error with the internal-error close code.
C19_UnknownDiscriminator ==
    \A i \in 1..Len(received) :
        (received[i].ws = "binary" /\ received[i].bad = "no" /\
         received[i].type \notin HandledTypes) =>
            /\ i = Len(received)
            /\ rpc = "done" /\ rerr = "unexpected" /\ rexit = "error"
            /\ Len(published) < Len(received)
            /\ \A j \in 1..Len(published) : published[j].type \in HandledTypes
            /\ cancelled
            /\ doneRet # "none" => (doneRet = "unexpected" /\ closeCode = "StatusInternalError")

C19_Witness ==
    /\ Len(received) >= 2
    /\ received[Len(received)] = Msg("Bogus", 0)
    /\ Len(published) = Len(received) - 1
    /\ doneRet = "unexpected"

\* ================================================================ decoding
\* A payload that holds a complete variant followed by more bytes (bad =
\* "trailing").  UnmarshalMsg returns the bytes left over beside its error
\* (the older TTS reader, src/clients/tts/main.go:356-365, tests them); both
\* readers drop them (_, err = ...UnmarshalMsg(payload)), so neither decode
\* of such a payload fails and Dispatch treats it as a well-formed one.
Trailing(t, v) == [ws |-> "binary", type |-> t, val |-> v, bad |-> "trailing"]

DecodeInbound ==
    {Msg("Word", 0), Msg("Step", 1), Trailing("Word", 0), Trailing("Step", 1),
     [ws |-> "binary", type |-> "Word", val |-> 0, bad |-> "body"],
     [ws |-> "binary", type |-> "Bogus", val |-> 0, bad |-> "header"]}

NextDecode ==
    \/ \E m \in DecodeInbound : ReaderRead(m)
    \/ ReaderReadClose
    \/ ReaderStep
    \/ ReaderPublish
    \/ WriterCtxDone
    \/ ConnBreak
    \/ \E ce \in {"nil", "EOF", "closeerr"} : Done(ce)

SpecDecode == Init /\ [][NextDecode]_vars

\* C20: a payload with bytes left after a complete variant makes the reader
\* fail with a decode error, and no event is handed to the read channel for
\* it.
C20_TrailingBytesRejected ==
    \A i \in 1..Len(received) :
        received[i].bad = "trailing" =>
            /\ i = Len(received)
            /\ rpc = "done" /\ rerr = "decode"
            /\ Len(Handed) < Len(received)

\* ---------------------------------------------------------------- codec round trip
NextCodec ==
    \/ CodecMarshal
    \/ CodecUnmarshal

SpecCodec == InitCodec /\ [][NextCodec]_vars

Accepted(m) ==
    /\ m.ws = "binary"
    /\ m.type \in HandledTypes
    /\ m.bad = "no" \/ (m.bad = "body" /\ m.type = "Ready")

\* A Marker with the reserved id was read before the i-th message.
DrainingBefore(i) ==
    \E j \in 1..(i - 1) : Accepted(received[j]) /\ received[j].type = "Marker"
                                                /\ received[j].val = EndMarkerID

\* The i-th message read is neither the reserved Marker nor a Step read while
\* draining.
Kept(i) ==
    /\ Accepted(received[i])
    /\ ~(received[i].type = "Marker" /\ received[i].val = EndMarkerID)
    /\ ~(received[i].type = "Step" /\ DrainingBefore(i))

RECURSIVE KeptEvents(_)
KeptEvents(n) ==
    IF n = 0
       THEN <<>>
       ELSE KeptEvents(n - 1) \o (IF Kept(n) THEN <<Event(received[n])>> ELSE <<>>)

IsPrefix(s, t) == Len(s) <= Len(t) /\ SubSeq(t, 1, Len(s)) = s

\* C22: the events handed to the read channel are the messages read, in the
\* order read, without the Marker with id 0 and the Steps read while draining,
\* each exactly once; what the caller received is a prefix of them.
C22_ReceiptOrder ==
    /\ Handed = KeptEvents(Len(received))
    /\ IsPrefix(published, KeptEvents(Len(received)))

C22_Witness ==
    /\ Len(received) = 3
    /\ received[1] = Msg("Marker", EndMarkerID)
    /\ received[2] = Msg("Step", 1)
    /\ Len(published) = 1
    /\ published[1] = Event(Msg("Word", 0))

\* ---------------------------------------------------------------- no partial success
\* C23: Done() returns nil only when the reader ended through the server's
\* regular close or through the end of the drain, both workers having
\* returned nil; when the reader ended any other way, Done() returns a
\* non-nil error.
C23_NoPartialSuccess ==
    /\ doneRet = "nil" =>
          /\ rexit \in {"close", "drained"}
          /\ rerr = "nil"
          /\ werr = "nil"
    /\ (doneRet # "none" /\ rexit \notin {"close", "drained"}) =>
          /\ doneRet # "nil"
          /\ doneRet = groupErr

C23_Witness ==
    /\ doneRet = "nil"
    /\ rexit = "drained"
    /\ Len(published) >= 1

\* ---------------------------------------------------------------- Steps while draining
\* The reader has just read a Step whose payload decodes.
StepRead ==
    /\ received' # received
    /\ Accepted(received'[Len(received')])
    /\ received'[Len(received')].type = "Step"

\* C24: a Step read while draining is never handed to the read channel: with
\* a nonzero buffered_pcm the reader goes on reading, with buffered_pcm 0 the
\* reader returns nil.  A Step read while not draining is handed to the read
\* channel whatever its buffered_pcm, and the reader does not return.
C24_StepsWhileDraining ==
    [][StepRead =>
         LET m == received'[Len(received')] IN
         IF draining
            THEN /\ Handed' = Handed
                 /\ draining'
                 /\ IF m.val = 0
                       THEN rpc' = "done" /\ rexit' = "drained" /\ rerr' = "nil"
                       ELSE rpc' = "read" /\ rexit' = "none"
            ELSE /\ Handed' = Append(Handed, Event(m))
                 /\ rpc' = "publish"
                 /\ rexit' = "none"
                 /\ ~draining']_vars

C24_Witness ==
    /\ received = <<Msg("Step", 0), Msg("Marker", EndMarkerID), Msg("Step", 0)>>
    /\ published = <<Event(Msg("Step", 0))>>
    /\ rexit = "drained"

\* ---------------------------------------------------------------- priming
\* The writer has not reached the finish: it waits for a batch or works on one.
BeforeFinish == wpc \in {"select", "prime", "chunk"}

Silences == SelectSeq(sock, LAMBDA w : w.msg = MessagePackAudio(oneSecondOfSilence))

\* C25: before the finish, whatever batches were submitted, the socket never
\* carries more than one one-second silence; it is the first message written;
\* and once the first batch was taken it has been written exactly once.
C25_PrimingOnce ==
    BeforeFinish =>
        /\ Len(Silences) <= 1
        /\ Len(sock) >= 1 => sock[1].msg = MessagePackAudio(oneSecondOfSilence)
        /\ (nbatches >= 1 /\ wpc # "prime") => Len(Silences) = 1

\* ---------------------------------------------------------------- flush signal
\* C26: once the flush channel is closed, no message is written to the socket
\* any more, and the writer's return, when it comes, is nil.
C26_SilentAfterFlushSignal ==
    [][flushClosed =>
          /\ sock' = sock
          /\ (wpc # "done" /\ wpc' = "done") => werr' = "nil"]_vars

\* ---------------------------------------------------------------- drain state
\* A writer that reaches the end of an empty input beside concurrent
\* SendMarker calls, and a server that echoes the Markers written to the
\* socket, each once, and reports an empty buffer.
EchoInbound == {Msg("Marker", i) : i \in 0..MaxMarkerCalls} \cup {Msg("Step", 0)}

NextEcho ==
    \/ \E c \in Callers : SendMarkerAdd(c)
    \/ \E c \in Callers : SendMarkerSend(c)
    \/ CallerClose
    \/ WriterRecvClosed
    \/ WriterMarker
    \/ WriterTick
    \/ WriterFlushed
    \/ \E m \in EchoInbound : Echoable(m) /\ ReaderRead(m)
    \/ ReaderPublish
    \/ \E ce \in {"nil", "EOF", "closeerr"} : Done(ce)

SpecEcho == Init /\ [][NextEcho]_vars

\* The writer goroutine wrote the Marker with id 0.
WriterWroteEndMarker ==
    \E i \in 1..Len(sock) :
        sock[i] = [msg |-> MessagePackMarker(EndMarkerID), by |-> "writer"]

\* C27: draining is false at first; whenever it is true the writer has
\* written the Marker with id 0 and the reader has read it back; once true it
\* stays true.
C27_DrainState ==
    /\ [](draining => (WriterWroteEndMarker /\
                       \E i \in 1..Len(received) : received[i] = Msg("Marker", EndMarkerID)))
    /\ [](Len(received) = 0 => ~draining)
    /\ [][draining => draining']_vars

C27_Witness ==
    /\ draining
    /\ Len(received) >= 2
    /\ received[1] = Msg("Marker", 1)
    /\ rpc = "done"

\* ---------------------------------------------------------------- frame buffer
\* C28: whenever the writer waits on the write channel, the frame buffer holds
\* fewer than FrameSize samples.
C28_FrameBufferBound == wpc = "select" => Len(buffer) < FrameSize

C28_Witness ==
    /\ wpc = "select"
    /\ nbatches = MaxBatches
    /\ Len(buffer) = FrameSize - 1
    /\ Len(AudioWritten) >= 3

\* ---------------------------------------------------------------- sample integrity
\* The position of the first Marker with id 0 on the socket, or one past the
\* end of the socket.
FirstEndMarker ==
    IF EndMarkerWrites = {}
       THEN Len(sock) + 1
       ELSE CHOOSE i \in EndMarkerWrites : \A j \in EndMarkerWrites : i <= j

RECURSIVE Samples(_)
Samples(s) == IF s = <<>> THEN <<>> ELSE Head(s).msg.pcm \o Samples(Tail(s))

\* The samples written after the first message and before the end marker.
SamplesWritten == Samples(SubSeq(sock, 2, FirstEndMarker - 1))

\* The samples submitted, and the padding that completes the last frame.
SamplesSubmitted == Batch(0, nsamples)

PaddingSubmitted == Zeros((FrameSize - (nsamples % FrameSize)) % FrameSize)

\* C29: the samples written after the priming silence and before the Marker
\* with id 0 are the samples submitted, in order, each once, followed only by
\* the padding of the last frame: at any time a prefix of them, and all of
\* them once the Marker is written.
C29_SampleIntegrity ==
    /\ \A i \in 1..Len(sock) : sock[i].by = "writer"
    /\ IsPrefix(SamplesWritten, SamplesSubmitted \o PaddingSubmitted)
    /\ EndMarkerWrites # {} => SamplesWritten = SamplesSubmitted \o PaddingSubmitted

\* ---------------------------------------------------------------- EndOfStream
\* A connection of either client whose server sends the EndOfStream back,
\* among messages the readers publish.
EosInbound == {Msg("Eos", 0), Msg("Ready", 0), Msg("Word", 0), Msg("Text", 0), Msg("Audio", 0)}

EosConnect == Connect /\ codec = CodecIdle /\ service \in {"stt", "tts"}

NextEos ==
    \/ \E m \in EosInbound : service = "stt" /\ ReaderRead(m)
    \/ \E m \in EosInbound : service = "tts" /\ TTSReaderRead(m)
    \/ ReaderReadClose
    \/ ReaderStep
    \/ ReaderPublish
    \/ WriterCtxDone
    \/ CallerStop
    \/ CallerCancel("canceled")
    \/ \E ce \in {"nil", "EOF", "closeerr"} : Done(ce)

SpecEos == EosConnect /\ [][NextEos]_vars

\* C30: on an STT and on a TTS connection no event of type Eos is handed to
\* the read channel; a binary message of type Eos is the last message read:
\* the reader returns the unexpected-type error for it, which cancels the
\* scope, and Done() returns that error.
C30_EosNeverSurfaced ==
    /\ \A i \in 1..Len(Handed) : Handed[i].type # "Eos"
    /\ \A i \in 1..Len(received) :
          (received[i].ws = "binary" /\ received[i].type = "Eos"
                                     /\ received[i].bad # "header") =>
              /\ i = Len(received)
              /\ rpc = "done"
              /\ rexit = "error"
              /\ rerr = "unexpected"
              /\ groupErr = "unexpected"
              /\ cancelled
              /\ doneRet \in {"none", "unexpected"}

C30_Witness ==
    /\ service = "tts"
    /\ Len(published) = 2
    /\ received[Len(received)] = Msg("Eos", 0)
    /\ doneRet = "unexpected"

\* ---------------------------------------------------------------- flush signal, once
\* C31: whatever the server sends, the flush channel is closed at most once:
\* no goroutine panics on the close of a closed channel.
C31_FlushSignalOnce == ~panicked

\* ---------------------------------------------------------------- cancellation after the finish
\* The writer is past the end of the input: in the flush loop, about to write
\* the end marker, or in the ticker loop.
PostFinish == wpc \in {"flush", "marker", "ticker"}

\* The writer's part of C32: nothing is written once the scope is cancelled,
\* and a writer past the end of the input returns.
WriterLeavesOnCancel ==
    /\ [][cancelled => sock' = sock]_vars
    /\ (cancelled /\ PostFinish) ~> (wpc = "done")

\* C32: when the scope is cancelled while the writer is past the end of the
\* input, nothing more is written to the socket, the writer returns, and
\* Done() returns.
C32_CancelAfterFinish ==
    /\ WriterLeavesOnCancel
    /\ (cancelled /\ PostFinish) ~> (doneRet # "none")

\* ---------------------------------------------------------------- nil means the input ended
\* C33: Done() returns nil only when the writer reached the end of the
\* caller's input: the STT writer wrote the Marker with id 0, the TTS writer
\* wrote the EndOfStream.
C33_NilMeansInputEnded ==
    doneRet = "nil" =>
        /\ service = "stt" => WriterWroteEndMarker
        /\ service = "tts" => EoSWritten

\* ---------------------------------------------------------------- read channel
\* C34: on an STT and on a TTS connection, once the read channel is closed
\* the reader has returned, so that it neither closes the channel again nor
\* sends on it: no step after the close hands an event to the channel.
C34_ReadChanClosedOnce ==
    /\ [](readerChanClosed => (rpc = "done" /\ rexit = "close" /\ ~panicked))
    /\ [][readerChanClosed => (readerChanClosed' /\ Handed' = Handed /\ rpc' = "done")]_vars

C34_Witness ==
    /\ readerChanClosed
    /\ service = "tts"
    /\ Len(published) >= 2
    /\ doneRet # "none"

\* ---------------------------------------------------------------- finish with no input
\* C35: with no batch submitted, the first message the writer writes is the
\* Marker with id 0, with no priming silence and no frame before it; only
\* one-second silences follow it; and the writer leaves the silence loop with
\* nil only once the flush channel is closed.
C35_FinishWithNoInput ==
    nbatches = 0 =>
        /\ \A i \in 1..Len(sock) :
              /\ sock[i].by = "writer"
              /\ sock[i].msg = IF i = 1 THEN MessagePackMarker(EndMarkerID)
                                        ELSE MessagePackAudio(oneSecondOfSilence)
        /\ wpc \in {"marker", "ticker"} => writeChanClosed
        /\ (wpc = "done" /\ werr = "nil" /\ Len(sock) >= 1) => flushClosed

C35_Witness ==
    /\ nbatches = 0
    /\ Len(sock) = 2
    /\ wpc = "done"
    /\ werr = "nil"
    /\ flushClosed

\* ---------------------------------------------------------------- audio lengths
\* C36: every Audio message on the socket holds exactly FrameSize samples or
\* exactly SampleRate samples.
C36_AudioLengths ==
    \A i \in 1..Len(AudioWritten) :
        Len(AudioWritten[i].msg.pcm) \in {FrameSize, SampleRate}

C36_Witness ==
    /\ Len(AudioWritten) >= 3
    /\ AudioWritten[1].msg = MessagePackAudio(oneSecondOfSilence)
    /\ AudioWritten[2].msg = MessagePackAudio(Batch(0, FrameSize))
    /\ IsPaddedFrame(AudioWritten[Len(AudioWritten)].msg)

\* ---------------------------------------------------------------- header reuse
\* var msgPack MessagePackHeader is declared outside the reader's loop: what
\* it holds when a payload arrives is what the header decode of the previous
\* message left in it.
msgPack ==
    IF received = <<>>
       THEN ZeroValue("Header")
       ELSE Value("Header", [type |-> received[Len(received)].type])

\* The variant a case of the switch decodes the payload into.
VariantOf(type) ==
    CASE type = "Ready"   -> "Header"
      [] type = "EndWord" -> "WordEnd"
      [] type \in {"Step", "Word", "Marker", "Text", "Audio"} -> type
      [] OTHER -> "Header"

\* The field of the decoded variant the reader looks at.
FieldRead(z) ==
    CASE z.variant = "Step"   -> z.fields.buffered_pcm
      [] z.variant = "Marker" -> z.fields.id
      [] OTHER                -> 0

\* One iteration of a reader's loop on the payload data: the header is decoded
\* into msgPack, the switch is on msgPack.Type, and the case decodes the
\* payload into a fresh value of its variant.
Decoded(data) ==
    LET hdr == UnmarshalMsg(msgPack, data)
        z == UnmarshalMsg(ZeroValue(VariantOf(hdr.fields.type)), data)
    IN  [ws |-> "binary", type |-> hdr.fields.type, val |-> FieldRead(z),
         bad |-> "no", data |-> data]

ReaderReadPayload(data) ==
    ReaderIteration(Decoded(data),
                    IF service = "stt" THEN Dispatch(Decoded(data), draining)
                                       ELSE TTSDispatch(Decoded(data)))

\* Payloads a server can send: encodings of messages, the same without their
\* type entry, and the empty map.
PayloadMessages ==
    {Value("Header", [type |-> "Ready"]),
     Value("Marker", [type |-> "Marker", id |-> 1]),
     Value("Word", [type |-> "Word", text |-> "a", start_time |-> 0]),
     Value("Step", [type |-> "Step", prs |-> <<>>, step_idx |-> 0, buffered_pcm |-> 1]),
     Value("Text", [type |-> "Text", text |-> "a"]),
     Value("Audio", [type |-> "Audio", pcm |-> <<MaxField>>])}

Payloads ==
    {MarshalMsg(m) : m \in PayloadMessages} \cup
    {Tail(MarshalMsg(m)) : m \in PayloadMessages}

NextHeader ==
    \/ \E data \in Payloads : ReaderReadPayload(data)
    \/ ReaderReadClose
    \/ ReaderStep
    \/ ReaderPublish
    \/ WriterCtxDone
    \/ CallerCancel("canceled")
    \/ \E ce \in {"nil", "EOF", "closeerr"} : Done(ce)

SpecHeader == EosConnect /\ [][NextHeader]_vars

\* The discriminator of a payload: what the header decode gives on a header
\* that holds nothing.
OwnType(data) == UnmarshalMsg(ZeroValue("Header"), data).fields.type

\* C37: every message read was dispatched on its own discriminator: the type
\* the reader switched on is the type its payload carries, whatever was read
\* before it.
C37_OwnDiscriminator ==
    \A i \in 1..Len(received) : received[i].type = OwnType(received[i].data)

====
